---- MODULE Spec2Model ----
(***************************************************************************)
(* Provider configuration resolution of terraform-provider-sbercloud       *)
(* (sbercloud/provider.go).                                                *)
(*                                                                         *)
(* One provider instantiation is modelled:                                 *)
(*   input      the practitioner writes provider arguments and sets        *)
(*              SBC_* environment variables;                               *)
(*   Validate   the schema declared in Provider() is applied to the        *)
(*              arguments (DefaultFunc, Required, RequiredWith);           *)
(*   Configure  provider.ConfigureFunc runs and calls configureProvider,   *)
(*              which fills a huaweicloud.Config, calls LoadAndValidate    *)
(*              on it and returns.                                         *)
(*                                                                         *)
(* A value that Go code obtains as (value, ok) or as a possibly-nil        *)
(* interface{} is a record [ok, v]; ok = FALSE is nil / not present.       *)
(* Values travel through the schema layer as strings, as they do in the    *)
(* attribute diff the ResourceData is read from; a TypeBool attribute is   *)
(* parsed on reading.                                                      *)
(***************************************************************************)
EXTENDS Naturals, FiniteSets, Sequences, TLC

\* Largest number of provider arguments plus environment variables that the
\* practitioner supplies in one instantiation.
MaxSet == 4

\* ------------------------------------------------------------------------
\* The schema declared in Provider()
\* ------------------------------------------------------------------------

Fields ==
  {"access_key", "secret_key", "auth_url", "region", "user_name",
   "project_name", "password", "account_name", "insecure"}

\* Type of each attribute.
Type ==
  [access_key |-> "TypeString", secret_key |-> "TypeString",
   auth_url |-> "TypeString", region |-> "TypeString",
   user_name |-> "TypeString", project_name |-> "TypeString",
   password |-> "TypeString", account_name |-> "TypeString",
   insecure |-> "TypeBool"]

\* Environment variable named by each attribute's DefaultFunc.
EnvName ==
  [access_key |-> "SBC_ACCESS_KEY", secret_key |-> "SBC_SECRET_KEY",
   auth_url |-> "SBC_AUTH_URL", region |-> "SBC_REGION_NAME",
   user_name |-> "SBC_USERNAME", project_name |-> "SBC_PROJECT_NAME",
   password |-> "SBC_PASSWORD", account_name |-> "SBC_ACCOUNT_NAME",
   insecure |-> "SBC_INSECURE"]

EnvNames == {EnvName[f] : f \in Fields}

DefaultAuthURL == "https://iam.ru-moscow-1.hc.sbercloud.ru/v3"

Nil == [ok |-> FALSE, v |-> ""]
Val(s) == [ok |-> TRUE, v |-> s]

\* Second argument of EnvDefaultFunc / MultiEnvDefaultFunc of each attribute.
HardDefault_noAuthURL ==
  [access_key |-> Nil, secret_key |-> Nil,
   auth_url |-> Nil, region |-> Nil,
   user_name |-> Val(""), project_name |-> Val(""),
   password |-> Val(""), account_name |-> Val(""),
   insecure |-> Val("false")]

HardDefault ==
  [access_key |-> Nil, secret_key |-> Nil,
   auth_url |-> Val(DefaultAuthURL), region |-> Nil,
   user_name |-> Val(""), project_name |-> Val(""),
   password |-> Val(""), account_name |-> Val(""),
   insecure |-> Val("false")]

\* Required: true is declared on region only; the others are Optional.
Required_none == [f \in Fields |-> FALSE]

Required == [f \in Fields |-> f = "region"]

\* RequiredWith of each attribute.
RequiredWith ==
  [access_key |-> {"secret_key"}, secret_key |-> {"access_key"},
   auth_url |-> {}, region |-> {},
   user_name |-> {"password", "account_name"}, project_name |-> {},
   password |-> {"user_name", "account_name"},
   account_name |-> {"password", "user_name"},
   insecure |-> {}]

\* ------------------------------------------------------------------------
\* Values the practitioner can supply
\* ------------------------------------------------------------------------

CfgVal ==
  [access_key |-> "ak", secret_key |-> "sk", auth_url |-> "https://iam.cfg/v3",
   region |-> "r1", user_name |-> "user", project_name |-> "proj-a",
   password |-> "pw", account_name |-> "acct", insecure |-> "true"]

EnvVal ==
  [access_key |-> "env-ak", secret_key |-> "env-sk",
   auth_url |-> "https://iam.env/v3", region |-> "ru-moscow-1",
   user_name |-> "env-user", project_name |-> "env-proj",
   password |-> "env-pw", account_name |-> "env-acct", insecure |-> "1"]

\* An argument written in the configuration: a string attribute may be
\* written as the empty string, a bool attribute as true or false.
ConfigValues(f) ==
  IF Type[f] = "TypeBool" THEN {"true", "false"} ELSE {"", CfgVal[f]}

\* A value of an environment variable; "" is what os.Getenv yields for a
\* variable that is not set.
EnvValues(f) ==
  IF Type[f] = "TypeBool" THEN {"1", "false"} ELSE {EnvVal[f]}

HostVersions == {"", "0.12.29"}

\* ------------------------------------------------------------------------
\* State
\* ------------------------------------------------------------------------

VARIABLES
  raw,               \* provider arguments as written: [Fields -> [ok, v]]
  env,               \* process environment: [EnvNames -> STRING]
  hostVersion,       \* provider.TerraformVersion as received from the host
  pc,                \* position in the instantiation
  prepared,          \* configuration handed to Validate and Configure
  schemaErrs,        \* errors reported by the schema layer
  d,                 \* the *schema.ResourceData given to ConfigureFunc
  terraformVersion,  \* argument of configureProvider
  config,            \* the huaweicloud.Config local of configureProvider
  loadCalls,         \* number of calls of config.LoadAndValidate
  loadErr,           \* what the last call of LoadAndValidate returned
  ret                \* what configureProvider returned: [cfg, err]

vars ==
  <<raw, env, hostVersion, pc, prepared, schemaErrs, d, terraformVersion,
    config, loadCalls, loadErr, ret>>

NoErr == "nil"
LoadErrors == {"invalid credentials", "endpoint unreachable"}

NilPtr == "nil"
ConfigPtr == "&config"

ZeroConfig ==
  [AccessKey |-> "", SecretKey |-> "", DomainName |-> "",
   IdentityEndpoint |-> "", Insecure |-> FALSE, Password |-> "",
   Region |-> "", TenantName |-> "", Username |-> "",
   TerraformVersion |-> "", Cloud |-> "", RegionClient |-> FALSE]

NoArgs == [f \in Fields |-> Nil]

\* ------------------------------------------------------------------------
\* The schema layer, as the declarations of Provider() make it behave
\* ------------------------------------------------------------------------

Getenv(e, k) == e[k]

\* schema.EnvDefaultFunc(k, dv) and schema.MultiEnvDefaultFunc([k], dv):
\* the variable's value when it is not empty, dv otherwise.
EnvDefaultFunc(e, k, dv) ==
  IF Getenv(e, k) # "" THEN Val(Getenv(e, k)) ELSE dv

\* DefaultFunc of attribute f.
DefaultFunc(e, f) == EnvDefaultFunc(e, EnvName[f], HardDefault[f])

\* strconv.ParseBool on the strings a TypeBool attribute can carry.
ParseBool(s) == s \in {"1", "t", "T", "true", "TRUE", "True"}

FormatBool(b) == IF b THEN "true" ELSE "false"

\* An argument that is not written takes the attribute's default when the
\* DefaultFunc yields one; a written argument, the empty string included,
\* is kept.  A bool default given as a string is converted to a bool.
ReadField_emptyIsUnset(c, e, f) ==
  IF c[f].ok /\ c[f].v # "" THEN c[f]
  ELSE IF DefaultFunc(e, f).ok /\ Type[f] = "TypeBool"
       THEN Val(FormatBool(ParseBool(DefaultFunc(e, f).v)))
       ELSE DefaultFunc(e, f)

ReadField_envFirst(c, e, f) ==
  IF Getenv(e, EnvName[f]) # "" THEN Val(Getenv(e, EnvName[f]))
  ELSE IF c[f].ok THEN c[f] ELSE HardDefault[f]

ReadField(c, e, f) ==
  IF c[f].ok THEN c[f]
  ELSE IF DefaultFunc(e, f).ok /\ Type[f] = "TypeBool"
       THEN Val(FormatBool(ParseBool(DefaultFunc(e, f).v)))
       ELSE DefaultFunc(e, f)

ReadAll(c, e) == [f \in Fields |-> ReadField(c, e, f)]

\* RequiredWith: every attribute named must be present with attribute k.
validateRequiredWithAttribute(c, k) ==
  IF \E o \in RequiredWith[k] : ~c[o].ok
  THEN {[field |-> k, msg |-> "all of these must be specified"]}
  ELSE {}

\* Validation of one attribute: an attribute with neither an argument nor a
\* default is an error when Required and is skipped otherwise; an attribute
\* that has a value is checked against RequiredWith.
validate(c, e, k) ==
  IF ~(c[k].ok \/ DefaultFunc(e, k).ok)
  THEN IF Required[k]
       THEN {[field |-> k, msg |-> "required field is not set"]}
       ELSE {}
  ELSE validateRequiredWithAttribute(c, k)

ValidateAll(c, e) == UNION {validate(c, e, k) : k \in Fields}

\* d.Get(k).(string), d.Get(k).(bool), d.GetOk(k)
DGet(dd, k) == IF dd[k].ok THEN dd[k].v ELSE ""
DGetBool(dd, k) == IF dd[k].ok THEN ParseBool(dd[k].v) ELSE FALSE
DGetOk(dd, k) == [v |-> DGet(dd, k), ok |-> dd[k].ok /\ DGet(dd, k) # ""]

\* ------------------------------------------------------------------------
\* configureProvider
\* ------------------------------------------------------------------------

\* "Use region as project_name if it's not set"
project_name_noFallback(dd) == DGet(dd, "project_name")

project_name(dd) ==
  IF DGetOk(dd, "project_name").ok /\ DGetOk(dd, "project_name").v # ""
  THEN DGetOk(dd, "project_name").v
  ELSE DGet(dd, "region")

\* The huaweicloud.Config literal.
NewConfig_tenantAsRegion(dd, tv) ==
  [AccessKey        |-> DGet(dd, "access_key"),
   SecretKey        |-> DGet(dd, "secret_key"),
   DomainName       |-> DGet(dd, "account_name"),
   IdentityEndpoint |-> DGet(dd, "auth_url"),
   Insecure         |-> DGetBool(dd, "insecure"),
   Password         |-> DGet(dd, "password"),
   Region           |-> project_name(dd),
   TenantName       |-> project_name(dd),
   Username         |-> DGet(dd, "user_name"),
   TerraformVersion |-> tv,
   Cloud            |-> "hc.sbercloud.ru",
   RegionClient     |-> TRUE]

NewConfig(dd, tv) ==
  [AccessKey        |-> DGet(dd, "access_key"),
   SecretKey        |-> DGet(dd, "secret_key"),
   DomainName       |-> DGet(dd, "account_name"),
   IdentityEndpoint |-> DGet(dd, "auth_url"),
   Insecure         |-> DGetBool(dd, "insecure"),
   Password         |-> DGet(dd, "password"),
   Region           |-> DGet(dd, "region"),
   TenantName       |-> project_name(dd),
   Username         |-> DGet(dd, "user_name"),
   TerraformVersion |-> tv,
   Cloud            |-> "hc.sbercloud.ru",
   RegionClient     |-> TRUE]

\* The version ConfigureFunc passes to configureProvider.
CompatVersion_noPlaceholder(v) == v

CompatVersion(v) == IF v = "" THEN "0.11+compatible" ELSE v

\* ------------------------------------------------------------------------
\* Behaviour
\* ------------------------------------------------------------------------

NumSet ==
  Cardinality({f \in Fields : raw[f].ok})
  + Cardinality({k \in EnvNames : env[k] # ""})

Init ==
  /\ raw = NoArgs
  /\ env = [k \in EnvNames |-> ""]
  /\ hostVersion \in HostVersions
  /\ pc = "input"
  /\ prepared = NoArgs
  /\ schemaErrs = {}
  /\ d = NoArgs
  /\ terraformVersion = ""
  /\ config = ZeroConfig
  /\ loadCalls = 0
  /\ loadErr = NoErr
  /\ ret = [cfg |-> NilPtr, err |-> NoErr]

\* The practitioner writes argument f in the provider block.
SetArgument(f, s) ==
  /\ pc = "input"
  /\ NumSet < MaxSet
  /\ ~raw[f].ok
  /\ raw' = [raw EXCEPT ![f] = Val(s)]
  /\ UNCHANGED <<env, hostVersion, pc, prepared, schemaErrs, d,
                 terraformVersion, config, loadCalls, loadErr, ret>>

\* The practitioner sets the environment variable of attribute f.
SetEnv(f, s) ==
  /\ pc = "input"
  /\ NumSet < MaxSet
  /\ env[EnvName[f]] = ""
  /\ env' = [env EXCEPT ![EnvName[f]] = s]
  /\ UNCHANGED <<raw, hostVersion, pc, prepared, schemaErrs, d,
                 terraformVersion, config, loadCalls, loadErr, ret>>

\* The schema is applied to the arguments: defaults are filled in and every
\* attribute is validated.  A configuration with errors goes no further.
Validate ==
  /\ pc = "input"
  /\ prepared' = ReadAll(raw, env)
  /\ schemaErrs' = ValidateAll(prepared', env)
  /\ pc' = IF schemaErrs' = {} THEN "accepted" ELSE "rejected"
  /\ UNCHANGED <<raw, env, hostVersion, d, terraformVersion, config,
                 loadCalls, loadErr, ret>>

\* provider.ConfigureFunc up to its call of configureProvider.
ConfigureFunc ==
  /\ pc = "accepted"
  /\ d' = ReadAll(prepared, env)
  /\ terraformVersion' = CompatVersion(hostVersion)
  /\ pc' = "configureProvider"
  /\ UNCHANGED <<raw, env, hostVersion, prepared, schemaErrs, config,
                 loadCalls, loadErr, ret>>

\* configureProvider up to the call of LoadAndValidate: the project name
\* fallback and the Config literal.
BuildConfig ==
  /\ pc = "configureProvider"
  /\ config' = NewConfig(d, terraformVersion)
  /\ pc' = "built"
  /\ UNCHANGED <<raw, env, hostVersion, prepared, schemaErrs, d,
                 terraformVersion, loadCalls, loadErr, ret>>

\* config.LoadAndValidate(): the library's call, which may reach the
\* identity endpoint; it succeeds or reports an error.
LoadAndValidate ==
  /\ pc = "built"
  /\ loadCalls' = loadCalls + 1
  /\ \E e \in {NoErr} \cup LoadErrors : loadErr' = e
  /\ pc' = "validated"
  /\ UNCHANGED <<raw, env, hostVersion, prepared, schemaErrs, d,
                 terraformVersion, config, ret>>

\* The two returns of configureProvider.
ReturnOf_retry(err) ==
  IF err # NoErr /\ loadCalls < 2
  THEN /\ pc' = "built"
       /\ ret' = ret
  ELSE /\ pc' = "done"
       /\ ret' = IF err # NoErr THEN [cfg |-> NilPtr, err |-> err]
                 ELSE [cfg |-> ConfigPtr, err |-> NoErr]

ReturnOf_partial(err) ==
  /\ pc' = "done"
  /\ ret' = [cfg |-> ConfigPtr, err |-> err]

ReturnOf(err) ==
  /\ pc' = "done"
  /\ ret' = IF err # NoErr THEN [cfg |-> NilPtr, err |-> err]
            ELSE [cfg |-> ConfigPtr, err |-> NoErr]

Return ==
  /\ pc = "validated"
  /\ ReturnOf(loadErr)
  /\ UNCHANGED <<raw, env, hostVersion, prepared, schemaErrs, d,
                 terraformVersion, config, loadCalls, loadErr>>

Next ==
  \/ \E f \in Fields : \E s \in ConfigValues(f) : SetArgument(f, s)
  \/ \E f \in Fields : \E s \in EnvValues(f) : SetEnv(f, s)
  \/ Validate
  \/ ConfigureFunc
  \/ BuildConfig
  \/ LoadAndValidate
  \/ Return

Spec == Init /\ [][Next]_vars

\* ------------------------------------------------------------------------
\* Properties
\* ------------------------------------------------------------------------

\* d has been read from the configuration.
Configured == pc \in {"configureProvider", "built", "validated", "done"}

\* The Config literal has been evaluated.
Built == pc \in {"built", "validated", "done"}

\* Attribute f is given as an argument / through its environment variable.
Explicit(f) == raw[f].ok
EnvSet(f) == env[EnvName[f]] # ""
Supplied(f) == Explicit(f) \/ EnvSet(f)
NoEnvironment == \A k \in EnvNames : env[k] = ""

\* C1: the TenantName of the configuration is the resolved region when
\* project_name resolves to the empty string (not set, or set to ""), and is
\* the resolved project_name unchanged when that is not empty.
C1_TenantName ==
  Built =>
    config.TenantName =
      IF DGet(d, "project_name") = "" THEN DGet(d, "region")
      ELSE DGet(d, "project_name")

\* C1 witness: project_name is written as "" and the tenant is the region.
C1_Witness ==
  /\ Built
  /\ raw["project_name"] = Val("")
  /\ raw["region"] = Val("r1")
  /\ config.TenantName = "r1"

\* C2: every attribute resolves to its argument when one is written,
\* otherwise to its environment variable when that is set (not empty),
\* otherwise to its hardcoded default where it has one; an argument is never
\* overridden by the environment or by a default.
C2_Precedence ==
  Configured =>
    \A f \in Fields :
      /\ Explicit(f) =>
           /\ d[f].ok
           /\ IF Type[f] = "TypeBool"
              THEN DGetBool(d, f) = ParseBool(raw[f].v)
              ELSE DGet(d, f) = raw[f].v
      /\ (~Explicit(f) /\ EnvSet(f)) =>
           /\ d[f].ok
           /\ IF Type[f] = "TypeBool"
              THEN DGetBool(d, f) = ParseBool(env[EnvName[f]])
              ELSE DGet(d, f) = env[EnvName[f]]
      /\ (~Explicit(f) /\ ~EnvSet(f)) => d[f] = HardDefault[f]

\* C2 witness: an argument and the environment variable of the same
\* attribute are both given, and the argument is what the attribute
\* resolves to.
C2_Witness ==
  /\ Configured
  /\ raw["auth_url"] = Val(CfgVal["auth_url"])
  /\ env["SBC_AUTH_URL"] = EnvVal["auth_url"]
  /\ DGet(d, "auth_url") = CfgVal["auth_url"]

\* C3 as claimed: with region given neither as an argument nor through
\* SBC_REGION_NAME, the instantiation ends in an error that LoadAndValidate
\* reported and no earlier layer did.
C3_ReportedByLoadAndValidate ==
  (pc \in {"rejected", "done"} /\ ~Supplied("region")) =>
    /\ pc = "done"
    /\ schemaErrs = {}
    /\ loadCalls = 1
    /\ ret.err \in LoadErrors

\* C3 amended: with region given neither as an argument nor through
\* SBC_REGION_NAME, the schema layer rejects the configuration with
\* "required field is not set" for region, and configureProvider and
\* LoadAndValidate are never reached.
C3_ReportedBySchema ==
  (pc # "input" /\ ~Supplied("region")) =>
    /\ pc = "rejected"
    /\ [field |-> "region", msg |-> "required field is not set"]
         \in schemaErrs
    /\ loadCalls = 0
    /\ ret.cfg = NilPtr

\* C3 witness: nothing is supplied at all and the configuration is rejected.
C3_Witness ==
  /\ pc = "rejected"
  /\ raw = NoArgs
  /\ NoEnvironment

\* C4: with auth_url given neither as an argument nor through SBC_AUTH_URL,
\* the IdentityEndpoint is the fixed default.
C4_DefaultEndpoint ==
  (Built /\ ~Supplied("auth_url")) =>
    config.IdentityEndpoint = "https://iam.ru-moscow-1.hc.sbercloud.ru/v3"

\* C4 witness: a configuration was built with auth_url not supplied.
C4_Witness ==
  /\ Built
  /\ ~Supplied("auth_url")
  /\ config.IdentityEndpoint = DefaultAuthURL

\* The scenario of C5: auth_url is written as "", region as "r1", and no
\* environment variable is set.
C5_Scenario ==
  /\ raw["auth_url"] = Val("")
  /\ raw["region"] = Val("r1")
  /\ NoEnvironment

\* C5 as claimed: in the scenario the IdentityEndpoint is the default.
C5_EmptyReplacedByDefault ==
  (Built /\ C5_Scenario) =>
    config.IdentityEndpoint = "https://iam.ru-moscow-1.hc.sbercloud.ru/v3"

\* C5 amended: in the scenario the IdentityEndpoint is the empty string;
\* an argument written as "" is kept and not replaced by the default.
C5_EmptyKept ==
  (Built /\ C5_Scenario) => config.IdentityEndpoint = ""

\* C5 witness: the scenario went through configureProvider.
C5_Witness ==
  /\ pc = "done"
  /\ C5_Scenario
  /\ config.Region = "r1"

\* C6: configureProvider returns either the configuration with no error,
\* after LoadAndValidate succeeded, or nil with the error LoadAndValidate
\* reported; never the configuration with an error, never nil without one.
C6_NoPartialSuccess ==
  pc = "done" =>
    \/ /\ ret.cfg = ConfigPtr
       /\ ret.err = NoErr
       /\ loadErr = NoErr
    \/ /\ ret.cfg = NilPtr
       /\ ret.err # NoErr
       /\ ret.err = loadErr

\* C6 witness: LoadAndValidate failed and configureProvider returned.
C6_Witness ==
  /\ pc = "done"
  /\ loadErr \in LoadErrors
  /\ ret.cfg = NilPtr

\* The calls of LoadAndValidate counted against the position.
C7_CallCount ==
  /\ loadCalls <= 1
  /\ pc \in {"input", "accepted", "rejected", "configureProvider", "built"}
       => loadCalls = 0
  /\ pc \in {"validated", "done"} =>
       /\ loadCalls = 1
       /\ config = NewConfig(d, terraformVersion)

\* A step that calls LoadAndValidate starts from the fully populated Config
\* (TenantName included); a step taken after the call leaves the Config
\* as it is.
C7_Step ==
  /\ loadCalls' # loadCalls =>
       /\ config = NewConfig(d, terraformVersion)
       /\ config.TenantName = project_name(d)
       /\ config.Cloud = "hc.sbercloud.ru"
  /\ loadCalls >= 1 => config' = config

\* C7: LoadAndValidate is called at most once, not before the whole Config
\* (TenantName included) is populated, exactly once by the time
\* configureProvider returns, whether it failed or not (no retry), and the
\* Config is not changed once it has been validated.
C7_ValidatedOnce == [](C7_CallCount) /\ [][C7_Step]_vars

\* C7 witness: LoadAndValidate failed, configureProvider returned and the
\* call was made once.
C7_Witness ==
  /\ pc = "done"
  /\ loadErr \in LoadErrors
  /\ loadCalls = 1

\* C8: a configuration that reaches configureProvider has access_key
\* supplied exactly when secret_key is, and user_name, password and
\* account_name supplied all together or not at all.
C8_MutualPresence ==
  pc \notin {"input", "rejected"} =>
    /\ Supplied("access_key") <=> Supplied("secret_key")
    /\ \/ \A f \in {"user_name", "password", "account_name"} : Supplied(f)
       \/ \A f \in {"user_name", "password", "account_name"} : ~Supplied(f)

\* C9: the TerraformVersion of the configuration is the host's version
\* string when that is not empty and "0.11+compatible" when it is; it is
\* never empty.
C9_TerraformVersion ==
  Built =>
    /\ config.TerraformVersion # ""
    /\ hostVersion # "" => config.TerraformVersion = hostVersion
    /\ hostVersion = "" => config.TerraformVersion = "0.11+compatible"

\* C9 witness: the host sent no version and the placeholder is stored.
C9_Witness ==
  /\ Built
  /\ hostVersion = ""
  /\ config.TerraformVersion = "0.11+compatible"

\* C10: the Config handed to LoadAndValidate carries the resolved
\* account_name as DomainName, the resolved region as Region, the fixed
\* Cloud and RegionClient, and the other resolved attributes one to one.
C10_FieldMapping ==
  Built =>
    /\ config.DomainName = DGet(d, "account_name")
    /\ config.Region = DGet(d, "region")
    /\ config.Cloud = "hc.sbercloud.ru"
    /\ config.RegionClient = TRUE
    /\ config.AccessKey = DGet(d, "access_key")
    /\ config.SecretKey = DGet(d, "secret_key")
    /\ config.Username = DGet(d, "user_name")
    /\ config.Password = DGet(d, "password")
    /\ config.IdentityEndpoint = DGet(d, "auth_url")
    /\ config.Insecure = DGetBool(d, "insecure")

\* C10 witness: a project name is given, so tenant and region differ, and
\* LoadAndValidate has been called on the Config.
C10_Witness ==
  /\ pc = "validated"
  /\ raw["project_name"] = Val("proj-a")
  /\ config.TenantName = "proj-a"
  /\ config.Region = "r1"
  /\ config.DomainName = ""

====
